---- MODULE Spec2Model ----
(***************************************************************************)
(* A model of rocket.py: the Body / System physics core, the keyboard      *)
(* control pass and the tick loop of pygame_run.                           *)
(*                                                                         *)
(* Numbers.  numpy float64 values are modelled as decimal floating-point   *)
(* numbers [m, e] (value m * 10^e) with a MantDigits-digit mantissa,       *)
(* an unbounded exponent and round-to-nearest-even after every operation,  *)
(* so that absorption (1.2 + 3e-11 = 1.2) and exact zeros (0 * x = 0)      *)
(* behave as they do in the program, and tiny non-zero terms stay non-zero.*)
(* A numpy value is either a 2-component ndarray or a Python scalar;       *)
(* arithmetic broadcasts a scalar over an ndarray, indexing a scalar is a  *)
(* TypeError.                                                              *)
(***************************************************************************)
EXTENDS Integers, Sequences, FiniteSets, TLC

\* ------------------------------------------------------------------ floats

MantDigits == 4

RECURSIVE Pow10(_)
Pow10(n) == IF n = 0 THEN 1 ELSE 10 * Pow10(n - 1)

MantMin == Pow10(MantDigits - 1)
MantMax == Pow10(MantDigits)

Abs(n) == IF n < 0 THEN -n ELSE n
Sgn(n) == IF n < 0 THEN -1 ELSE 1

FZero == [m |-> 0, e |-> 0]

RECURSIVE NumDigits(_)
NumDigits(n) == IF n < 10 THEN 1 ELSE 1 + NumDigits(n \div 10)

\* n >= MantMax rounded to MantDigits digits, ties to even; the dropped
\* digits raise the exponent.
RoundDown(n, e) ==
    LET d   == NumDigits(n) - MantDigits
        p   == Pow10(d)
        q   == n \div p
        r   == n % p
        up  == (2 * r > p) \/ (2 * r = p /\ q % 2 = 1)
        q1  == IF up THEN q + 1 ELSE q
    IN  IF q1 = MantMax THEN [m |-> MantMin, e |-> e + d + 1]
                        ELSE [m |-> q1, e |-> e + d]

RECURSIVE ScaleUp(_, _)
ScaleUp(n, e) == IF n >= MantMin THEN [m |-> n, e |-> e] ELSE ScaleUp(n * 10, e - 1)

\* The float nearest to m * 10^e.
Normalize(m, e) ==
    IF m = 0 THEN FZero
    ELSE LET a == Abs(m)
             f == IF a >= MantMax THEN RoundDown(a, e) ELSE ScaleUp(a, e)
         IN  [m |-> Sgn(m) * f.m, e |-> f.e]

\* A literal of the source: Lit(12, -1) is 1.2.
Lit(m, e) == Normalize(m, e)

FNeg(a) == [m |-> -a.m, e |-> a.e]

FAdd(a, b) ==
    IF a.m = 0 THEN b
    ELSE IF b.m = 0 THEN a
    ELSE LET hi == IF a.e >= b.e THEN a ELSE b
             lo == IF a.e >= b.e THEN b ELSE a
             d  == hi.e - lo.e
         IN  IF d > MantDigits + 1 THEN hi
             ELSE Normalize(hi.m * Pow10(d) + lo.m, lo.e)

FSub(a, b) == FAdd(a, FNeg(b))

FMul(a, b) == Normalize(a.m * b.m, a.e + b.e)

\* a / b for b # 0; a sticky digit keeps the rounding exact.
FDiv(a, b) ==
    IF a.m = 0 THEN FZero
    ELSE LET n  == Abs(a.m) * Pow10(MantDigits + 1)
             q  == n \div Abs(b.m)
             r  == n % Abs(b.m)
             qs == q * 10 + (IF r = 0 THEN 0 ELSE 1)
         IN  Normalize(Sgn(a.m) * Sgn(b.m) * qs, a.e - b.e - MantDigits - 2)

RECURSIVE ISqrtIn(_, _, _)
ISqrtIn(n, lo, hi) ==
    IF lo >= hi THEN lo
    ELSE LET mid == (lo + hi + 1) \div 2
         IN  IF mid * mid <= n THEN ISqrtIn(n, mid, hi) ELSE ISqrtIn(n, lo, mid - 1)

ISqrt(n) == ISqrtIn(n, 0, 46340)

\* sqrt(a) for a >= 0.
FSqrt(a) ==
    IF a.m = 0 THEN FZero
    ELSE LET odd == a.e % 2 = 1
             n   == a.m * Pow10(MantDigits) * (IF odd THEN 10 ELSE 1)
             e2  == (IF odd THEN a.e - 1 ELSE a.e) - MantDigits
             s   == ISqrt(n)
             ss  == s * 10 + (IF s * s = n THEN 0 ELSE 1)
         IN  Normalize(ss, (e2 \div 2) - 1)

FLt(a, b) == FSub(a, b).m < 0

FMax(a, b) == IF FLt(a, b) THEN b ELSE a

\* np.sin(np.radians(deg)) for deg a multiple of 5, from the quarter-wave
\* table rounded to MantDigits digits.  (At multiples of 90 float64 leaves a
\* residual near 1e-16 where the table has 0; the heading moves 5 degrees
\* per control pass and stays far from 90 within the tick bounds.)
SinTable == << 8716, 1736, 2588, 3420, 4226, 5000, 5736, 6428, 7071,
               7660, 8192, 8660, 9063, 9397, 9659, 9848, 9962 >>

SinQuarter(d) ==
    IF d = 0 THEN FZero
    ELSE IF d = 90 THEN Lit(1, 0)
    ELSE IF d = 5 THEN Lit(SinTable[1], -5)
    ELSE Lit(SinTable[d \div 5], -4)

SinDeg(deg) ==
    LET d == deg % 360
    IN  IF d <= 90 THEN SinQuarter(d)
        ELSE IF d <= 180 THEN SinQuarter(180 - d)
        ELSE IF d <= 270 THEN FNeg(SinQuarter(d - 180))
        ELSE FNeg(SinQuarter(360 - d))

CosDeg(deg) == SinDeg(deg + 90)

\* ------------------------------------------------------------------ numpy values

Vec2(x, y) == [kind |-> "ndarray", x |-> x, y |-> y]
Scalar(v)  == [kind |-> "scalar", x |-> v, y |-> v]

IsArray(a) == a.kind = "ndarray"

Broadcast(a, b) == IF IsArray(a) \/ IsArray(b) THEN "ndarray" ELSE "scalar"

\* a + b, a - b, a * b, a / b with numpy broadcasting of scalars.
NpAdd(a, b) == [kind |-> Broadcast(a, b), x |-> FAdd(a.x, b.x), y |-> FAdd(a.y, b.y)]
NpSub(a, b) == [kind |-> Broadcast(a, b), x |-> FSub(a.x, b.x), y |-> FSub(a.y, b.y)]
NpMul(a, b) == [kind |-> Broadcast(a, b), x |-> FMul(a.x, b.x), y |-> FMul(a.y, b.y)]
NpDiv(a, b) == [kind |-> Broadcast(a, b), x |-> FDiv(a.x, b.x), y |-> FDiv(a.y, b.y)]

\* np.zeros(2)
NpZeros == Vec2(FZero, FZero)

\* np.linalg.norm(r)
NpNorm(r) == FSqrt(FAdd(FMul(r.x, r.x), FMul(r.y, r.y)))

\* d ** 3
Cube(d) == FMul(FMul(d, d), d)

\* The values of a numpy value are all zero.
IsZero(a) == a.x.m = 0 /\ a.y.m = 0

\* ------------------------------------------------------------------ Body

Half == Lit(5, -1)

ThrustIdle    == Lit(1, -4)
ThrustEngaged == Lit(6, 0)
ThrustOff     == FZero
AngleStep     == 5
HistoryCap    == 2

\* Body.__init__ (the fields that are not rendering state)
Body(mass, position, velocity, is_rocket) ==
    [ mass             |-> mass,
      position         |-> position,
      velocity         |-> velocity,
      is_rocket        |-> is_rocket,
      thrust           |-> IF is_rocket THEN ThrustIdle ELSE FZero,
      angle            |-> IF is_rocket THEN 0 ELSE "None",
      position_history |-> << >> ]

Softening == Lit(18, -2)
DefaultG  == Lit(1, 0)

GravityTermMutantSelfMass(self, other, g, softening) ==
    LET r        == NpSub(other.position, self.position)
        distance == NpNorm(r)
    IN  NpDiv(NpMul(Scalar(FMul(g, self.mass)), r),
              Scalar(FMax(Cube(distance), Cube(softening))))

\* One term of the gravity loop: G * other.mass * r / max(distance^3, softening^3)
GravityTerm(self, other, g, softening) ==
    LET r        == NpSub(other.position, self.position)
        distance == NpNorm(r)
    IN  NpDiv(NpMul(Scalar(FMul(g, other.mass)), r),
              Scalar(FMax(Cube(distance), Cube(softening))))

RECURSIVE GravitySum(_, _, _, _, _)
GravitySum(self, others, g, softening, acc) ==
    IF others = << >> THEN acc
    ELSE GravitySum(self, Tail(others), g, softening,
                    NpAdd(acc, GravityTerm(self, Head(others), g, softening)))

ThrustAcceleration(self) ==
    Vec2(FMul(FNeg(self.thrust), SinDeg(self.angle)),
         FMul(self.thrust, CosDeg(self.angle)))

GravityMutantAll(self, other_bodies, g, softening) ==
    GravitySum(self, other_bodies, g, softening, NpZeros)

\* The gravity branch of compute_acceleration: passive bodies only.
Gravity(self, other_bodies, g, softening) ==
    IF ~self.is_rocket
    THEN GravitySum(self, other_bodies, g, softening, NpZeros)
    ELSE NpZeros

\* Body.compute_acceleration
compute_acceleration(self, other_bodies, g, softening) ==
    LET acceleration == Gravity(self, other_bodies, g, softening)
    IN  IF self.is_rocket
        THEN NpAdd(acceleration, ThrustAcceleration(self))
        ELSE acceleration

\* Body.get_state: indexing a scalar velocity raises TypeError.
body_get_state(self) ==
    IF IsArray(self.position) /\ IsArray(self.velocity)
    THEN [error |-> "none",
          value |-> << self.position.x, self.position.y, self.velocity.x, self.velocity.y >>]
    ELSE [error |-> "TypeError", value |-> << >>]

AllKeys == [left : BOOLEAN, right : BOOLEAN, up : BOOLEAN, down : BOOLEAN]
NoKeys  == [left |-> FALSE, right |-> FALSE, up |-> FALSE, down |-> FALSE]

ControlAngleMutantElif(angle, keys) ==
    IF keys.left THEN angle + AngleStep
    ELSE IF keys.right THEN angle - AngleStep ELSE angle

ControlAngle(angle, keys) ==
    LET a1 == IF keys.left THEN angle + AngleStep ELSE angle
    IN  IF keys.right THEN a1 - AngleStep ELSE a1

ControlThrustMutantLatch(thrust, keys) == IF keys.up THEN ThrustEngaged ELSE thrust

ControlThrust(thrust, keys) == IF keys.up THEN ThrustEngaged ELSE ThrustOff

\* self.velocity = 0 rebinds the field to the Python int 0.
ControlVelocity(velocity, keys) == IF keys.down THEN Scalar(FZero) ELSE velocity

update_rocket_controlsMutantNoGuard(self, keys) ==
    IF self.is_rocket
    THEN [self EXCEPT !.angle    = ControlAngle(@, keys),
                      !.thrust   = ControlThrust(@, keys),
                      !.velocity = ControlVelocity(@, keys)]
    ELSE [self EXCEPT !.thrust   = ControlThrust(@, keys),
                      !.velocity = ControlVelocity(@, keys)]

\* Body.update_rocket_controls
update_rocket_controls(self, keys) ==
    IF self.is_rocket
    THEN [self EXCEPT !.angle    = ControlAngle(@, keys),
                      !.thrust   = ControlThrust(@, keys),
                      !.velocity = ControlVelocity(@, keys)]
    ELSE self

\* ------------------------------------------------------------------ System

MaxTicks    == 3
MaxControls == 1
MaxStateLen == 8

VARIABLES
    args,               \* the arguments System(...) is constructed from
    bodies,             \* System.bodies, in order
    pc,                 \* position of the running code
    ret,                \* where the running integrate call returns to
    running,            \* pygame_run: the loop flag
    keys,               \* pygame_run: this tick's input snapshot
    dt,                 \* the timestep of the running integrate call
    accelerations,      \* integrate: first acceleration pass
    new_accelerations,  \* integrate: second acceleration pass
    out,                \* what the last get_state call returned
    raised,             \* the exception that ended the last call, or "none"
    ticks,              \* number of completed integrate calls
    controls,           \* number of control passes made
    built,              \* the bodies as constructed
    pre,                \* the bodies when the running integrate call began
    posted              \* per completed tick, the post-tick position of every body

vars == << args, bodies, pc, ret, running, keys, dt, accelerations,
           new_accelerations, out, raised, ticks, controls, built, pre, posted >>

Indices(seq) == 1 .. Len(seq)

\* int(len(state) / 4)
BodyCount(state) == Len(state) \div 4

BodiesFromStateMutantStride(state) ==
    [ b \in 1 .. BodyCount(state) |->
        LET n == (b - 1) * 4
        IN  Body(Lit(1, 0), Vec2(state[1 + n], state[3 + n]),
                            Vec2(state[2 + n], state[4 + n]), FALSE) ]

\* System.__init__ with a state vector: one unit-mass passive body per quadruple.
BodiesFromState(state) ==
    [ b \in 1 .. BodyCount(state) |->
        LET n == (b - 1) * 4
        IN  Body(Lit(1, 0), Vec2(state[1 + n], state[2 + n]),
                            Vec2(state[3 + n], state[4 + n]), FALSE) ]

\* System.__init__
SystemInit(a) == IF a.kind = "state" THEN BodiesFromState(a.state) ELSE a.bodies

RECURSIVE Extend(_, _)
Extend(state, rows) ==
    IF rows = << >> THEN state ELSE Extend(state \o Head(rows), Tail(rows))

\* System.get_state
get_state(bs) ==
    LET rows == [ i \in Indices(bs) |-> body_get_state(bs[i]) ]
    IN  IF \E i \in Indices(bs) : rows[i].error # "none"
        THEN [error |-> "TypeError", value |-> << >>]
        ELSE [error |-> "none", value |-> Extend(<< >>, [ i \in Indices(bs) |-> rows[i].value ])]

\* other_bodies = [b for b in self.bodies if b is not body]
OtherBodies(bs, i) ==
    [ j \in 1 .. (Len(bs) - 1) |-> IF j < i THEN bs[j] ELSE bs[j + 1] ]

\* System.compute_accelerations
compute_accelerations(bs, g) ==
    [ i \in Indices(bs) |-> compute_acceleration(bs[i], OtherBodies(bs, i), g, Softening) ]

\* body.position += body.velocity * dt + 0.5 * accelerations[i] * dt**2
PositionStep(position, velocity, a0, h) ==
    NpAdd(position,
          NpAdd(NpMul(velocity, Scalar(h)),
                NpMul(NpMul(Scalar(Half), a0), Scalar(FMul(h, h)))))

\* body.velocity += 0.5 * (accelerations[i] + new_accelerations[i]) * dt
VelocityStep(velocity, a0, a1, h) ==
    NpAdd(velocity, NpMul(NpMul(Scalar(Half), NpAdd(a0, a1)), Scalar(h)))

TrailAppendMutantPopNewest(history, position) ==
    IF Len(history) + 1 > HistoryCap THEN history ELSE Append(history, position)

\* position_history.append(position.copy()), then pop(0) over the cap
TrailAppend(history, position) ==
    LET h == Append(history, position)
    IN  IF Len(h) > HistoryCap THEN Tail(h) ELSE h

\* generate()
Generate ==
    << Body(Lit(1, 0), Vec2(Lit(0, 0), Lit(0, 0)), Vec2(Lit(687546, -6), Lit(106785, -5)), FALSE),
       Body(Lit(1, 0), Vec2(Lit(-1, 0), Lit(0, 0)), Vec2(Lit(-343773, -6), Lit(-533925, -6)), FALSE),
       Body(Lit(1, 0), Vec2(Lit(1, 0), Lit(0, 0)), Vec2(Lit(-343773, -6), Lit(-533925, -6)), FALSE),
       Body(Lit(1, -4), Vec2(Lit(0, 0), Lit(12, -1)), Vec2(Lit(0, 0), Lit(0, 0)), TRUE) >>

\* ------------------------------------------------------------------ integrate

Dt == Lit(1, -3)

\* accelerations = self.compute_accelerations()
IntegrateA0 ==
    /\ pc = "a0"
    /\ accelerations' = compute_accelerations(bodies, DefaultG)
    /\ pc' = "pos"
    /\ UNCHANGED << args, bodies, ret, running, keys, dt, new_accelerations, out, raised,
                    ticks, controls, built, pre, posted >>

\* the position loop
IntegratePos ==
    /\ pc = "pos"
    /\ bodies' = [ i \in Indices(bodies) |->
                     [bodies[i] EXCEPT !.position =
                         PositionStep(@, bodies[i].velocity, accelerations[i], dt)] ]
    /\ pc' = "a1"
    /\ UNCHANGED << args, ret, running, keys, dt, accelerations, new_accelerations, out, raised,
                    ticks, controls, built, pre, posted >>

IntegrateA1MutantMixed ==
    /\ pc = "a1"
    /\ new_accelerations' =
          compute_accelerations([bodies EXCEPT ![1].position = pre[1].position], DefaultG)
    /\ pc' = "vel"
    /\ UNCHANGED << args, bodies, ret, running, keys, dt, accelerations, out, raised,
                    ticks, controls, built, pre, posted >>

\* new_accelerations = self.compute_accelerations()
IntegrateA1 ==
    /\ pc = "a1"
    /\ new_accelerations' = compute_accelerations(bodies, DefaultG)
    /\ pc' = "vel"
    /\ UNCHANGED << args, bodies, ret, running, keys, dt, accelerations, out, raised,
                    ticks, controls, built, pre, posted >>

\* the velocity and trail loop, and the return
IntegrateVel ==
    /\ pc = "vel"
    /\ bodies' = [ i \in Indices(bodies) |->
                     [bodies[i] EXCEPT
                        !.velocity = VelocityStep(@, accelerations[i], new_accelerations[i], dt),
                        !.position_history = TrailAppend(@, bodies[i].position)] ]
    /\ ticks' = ticks + 1
    /\ posted' = Append(posted, [ i \in Indices(bodies) |-> bodies[i].position ])
    /\ pc' = ret
    /\ UNCHANGED << args, ret, running, keys, dt, accelerations, new_accelerations, out, raised,
                    controls, built, pre >>

Integrate == IntegrateA0 \/ IntegratePos \/ IntegrateA1 \/ IntegrateVel

\* ------------------------------------------------------------------ pygame_run(generate())

Rocket == 4

Init ==
    /\ args = [kind |-> "bodies", bodies |-> Generate]
    /\ bodies = SystemInit(args)
    /\ built = bodies
    /\ pre = bodies
    /\ pc = "loop"
    /\ ret = "draw"
    /\ running = TRUE
    /\ keys = NoKeys
    /\ dt = Dt
    /\ accelerations = << >>
    /\ new_accelerations = << >>
    /\ out = << >>
    /\ raised = "none"
    /\ ticks = 0
    /\ controls = 0
    /\ posted = << >>

\* The head of one loop iteration: the event poll (QUIT clears running), the
\* key snapshot, the control pass on bodies[3] and the call of integrate(dt).
PollAndControl(quit, k) ==
    /\ pc = "loop"
    /\ running
    /\ ticks < MaxTicks
    /\ running' = ~quit
    /\ keys' = k
    /\ bodies' = [bodies EXCEPT ![Rocket] = update_rocket_controls(@, k)]
    /\ controls' = controls + 1
    /\ pre' = bodies'
    /\ ret' = "draw"
    /\ pc' = "a0"
    /\ UNCHANGED << args, dt, accelerations, new_accelerations, out, raised, ticks, built, posted >>

\* The drawing pass reads the bodies; it writes rendering state only.
Draw ==
    /\ pc = "draw"
    /\ pc' = "loop"
    /\ UNCHANGED << args, bodies, ret, running, keys, dt, accelerations,
                    new_accelerations, out, raised, ticks, controls, built, pre, posted >>

\* pygame.quit()
Quit ==
    /\ pc = "loop"
    /\ ~running
    /\ pc' = "done"
    /\ UNCHANGED << args, bodies, ret, running, keys, dt, accelerations,
                    new_accelerations, out, raised, ticks, controls, built, pre, posted >>

Next ==
    \/ \E quit \in BOOLEAN, k \in AllKeys : PollAndControl(quit, k)
    \/ Integrate
    \/ Draw
    \/ Quit

Spec == Init /\ [][Next]_vars

\* ------------------------------------------------------------------ the System API

MaxBodies   == 2
MaxApiTicks == 1

StateValues == { Lit(0, 0), Lit(1, 0), Lit(2, 0) }

StateVectors == UNION { [1 .. n -> StateValues] : n \in 0 .. MaxStateLen }

BodyChoices ==
    { Body(Lit(1, 0),  Vec2(Lit(0, 0), Lit(0, 0)),  Vec2(Lit(0, 0), Lit(0, 0)), FALSE),
      Body(Lit(1, 0),  Vec2(Lit(1, 0), Lit(0, 0)),  Vec2(Lit(0, 0), Lit(1, 0)), FALSE),
      Body(Lit(1, -4), Vec2(Lit(0, 0), Lit(12, -1)), Vec2(Lit(0, 0), Lit(0, 0)), TRUE),
      Body(Lit(1, -4), Vec2(Lit(0, 0), Lit(12, -1)), Vec2(Lit(1, 0), Lit(0, 0)), TRUE) }

\* Body lists with at most one controllable body.
BodyLists ==
    { bs \in UNION { [1 .. n -> BodyChoices] : n \in 1 .. MaxBodies } :
        Cardinality({ i \in Indices(bs) : bs[i].is_rocket }) <= 1 }

DtChoices == { Dt, Lit(5, -1) }

\* A client holding System(bodies=...) that calls its methods in any order.
InitApi ==
    /\ args \in [kind : {"bodies"}, bodies : BodyLists]
    /\ bodies = SystemInit(args)
    /\ built = bodies
    /\ pre = bodies
    /\ pc = "idle"
    /\ ret = "idle"
    /\ running = TRUE
    /\ keys = NoKeys
    /\ dt = Dt
    /\ accelerations = << >>
    /\ new_accelerations = << >>
    /\ out = << >>
    /\ raised = "none"
    /\ ticks = 0
    /\ controls = 0
    /\ posted = << >>

\* bodies[b].update_rocket_controls(k)
ApiControl(b, k) ==
    /\ pc = "idle"
    /\ controls < MaxControls
    /\ b \in Indices(bodies)
    /\ bodies' = [bodies EXCEPT ![b] = update_rocket_controls(@, k)]
    /\ controls' = controls + 1
    /\ raised' = "none"
    /\ out' = << >>
    /\ UNCHANGED << args, pc, ret, running, keys, dt, accelerations, new_accelerations,
                    ticks, built, pre, posted >>

\* system.integrate(h): the call; the Integrate steps run it.
ApiIntegrate(h) ==
    /\ pc = "idle"
    /\ ticks < MaxApiTicks
    /\ dt' = h
    /\ pre' = bodies
    /\ ret' = "idle"
    /\ pc' = "a0"
    /\ raised' = "none"
    /\ out' = << >>
    /\ UNCHANGED << args, bodies, running, keys, accelerations, new_accelerations,
                    ticks, controls, built, posted >>

\* system.get_state()
GetState ==
    /\ pc = "idle"
    /\ LET r == get_state(bodies)
       IN  /\ raised' = r.error
           /\ out' = IF r.error = "none" THEN r.value ELSE out
    /\ UNCHANGED << args, bodies, pc, ret, running, keys, dt, accelerations,
                    new_accelerations, ticks, controls, built, pre, posted >>

NextApi ==
    \/ \E b \in 1 .. MaxBodies, k \in AllKeys : ApiControl(b, k)
    \/ \E h \in DtChoices : ApiIntegrate(h)
    \/ Integrate
    \/ GetState

SpecApi == InitApi /\ [][NextApi]_vars

\* A client that builds System(state=s) and reads the state back.
InitState ==
    /\ args \in [kind : {"state"}, state : StateVectors]
    /\ bodies = << >>
    /\ built = << >>
    /\ pre = << >>
    /\ pc = "new"
    /\ ret = "idle"
    /\ running = TRUE
    /\ keys = NoKeys
    /\ dt = Dt
    /\ accelerations = << >>
    /\ new_accelerations = << >>
    /\ out = << >>
    /\ raised = "none"
    /\ ticks = 0
    /\ controls = 0
    /\ posted = << >>

\* System(state=args.state)
Construct ==
    /\ pc = "new"
    /\ bodies' = SystemInit(args)
    /\ built' = bodies'
    /\ pre' = bodies'
    /\ raised' = "none"
    /\ pc' = "idle"
    /\ UNCHANGED << args, ret, running, keys, dt, accelerations, new_accelerations, out,
                    ticks, controls, posted >>

NextState == Construct \/ GetState

SpecState == InitState /\ [][NextState]_vars

\* ------------------------------------------------------------------ properties

InCall   == pc \in {"a0", "pos", "a1", "vel"}
Returned == ticks > 0 /\ pc \in {"draw", "loop", "done", "idle"}

Min(a, b) == IF a < b THEN a ELSE b

\* The post-tick positions of body i over the last Min(ticks, HistoryCap) ticks.
Retained(i) ==
    LET n == Min(ticks, HistoryCap)
    IN  [ k \in 1 .. n |-> posted[ticks - n + k][i] ]

\* C1: at every tick boundary each body's position_history is exactly its
\* post-tick positions of the last min(T, CAP) ticks in tick order; so its
\* length never exceeds CAP, is CAP once T > CAP, and its oldest sample is
\* the one of tick T - CAP + 1.
C1_TrailCapFifo ==
    ~InCall =>
        \A i \in Indices(bodies) :
            /\ bodies[i].position_history = Retained(i)
            /\ Len(bodies[i].position_history) <= HistoryCap
            /\ ticks > HistoryCap =>
                 /\ Len(bodies[i].position_history) = HistoryCap
                 /\ bodies[i].position_history[1] = posted[ticks - HistoryCap + 1][i]

C1_Witness ==
    /\ pc = "draw"
    /\ ticks = HistoryCap + 1
    /\ Len(bodies[1].position_history) = HistoryCap
    /\ bodies[1].position_history[1] = posted[2][1]
    /\ posted[1][1] # posted[2][1]

\* What integrate(dt) must leave in body i's position, from the state the call
\* began in and the first acceleration pass.
ExpectedPosition(i) ==
    NpAdd(pre[i].position,
          NpAdd(NpMul(pre[i].velocity, Scalar(dt)),
                NpMul(NpMul(Scalar(Half), accelerations[i]), Scalar(FMul(dt, dt)))))

AllMoved == [ i \in Indices(pre) |-> [pre[i] EXCEPT !.position = ExpectedPosition(i)] ]

\* C2: within one integrate call a0 is computed for all bodies from the entry
\* state before any position is written; every position is updated before the
\* second pass, which reads the new position of every body; each velocity is
\* then advanced by 0.5 * (a0[i] + a1[i]) * dt of that same call.
C2_StepOrdering ==
    /\ pc = "pos" =>
         /\ accelerations = compute_accelerations(pre, DefaultG)
         /\ \A i \in Indices(bodies) : bodies[i].position = pre[i].position
    /\ pc \in {"a1", "vel"} =>
         \A i \in Indices(bodies) :
            /\ bodies[i].position = ExpectedPosition(i)
            /\ bodies[i].velocity = pre[i].velocity
    /\ pc = "vel" =>
         new_accelerations = compute_accelerations(AllMoved, DefaultG)
    /\ (pc = "draw" /\ ticks > 0) =>
         /\ accelerations = compute_accelerations(pre, DefaultG)
         /\ new_accelerations = compute_accelerations(AllMoved, DefaultG)
         /\ \A i \in Indices(bodies) :
               /\ bodies[i].position = ExpectedPosition(i)
               /\ bodies[i].velocity =
                    NpAdd(pre[i].velocity,
                          NpMul(NpMul(Scalar(Half),
                                      NpAdd(accelerations[i], new_accelerations[i])),
                                Scalar(dt)))

C2_Witness ==
    /\ pc = "draw"
    /\ ticks = 2
    /\ new_accelerations # accelerations
    /\ \A i \in 1 .. 3 : bodies[i].position # pre[i].position

\* C3: a System built from a state vector whose length is a multiple of 4
\* returns exactly that vector from get_state when no integrate call came in
\* between, and each of its bodies has mass 1.0 and is not controllable.
C3_RoundTrip ==
    (pc = "idle" /\ Len(args.state) % 4 = 0) =>
        /\ Len(bodies) * 4 = Len(args.state)
        /\ \A i \in Indices(bodies) :
              bodies[i].mass = Lit(1, 0) /\ ~bodies[i].is_rocket
        /\ get_state(bodies) = [error |-> "none", value |-> args.state]
        /\ raised = "none"
        /\ out \in { << >>, args.state }

C3_Witness ==
    /\ pc = "idle"
    /\ Len(args.state) = 8
    /\ out = args.state
    /\ args.state[1] # args.state[2]
    /\ args.state[3] # args.state[7]
    /\ args.state[2] # args.state[3]

\* C4: at every integrate call of the tick loop the rocket's thrust is the
\* engaged value if this tick's snapshot has the thrust flag set and 0
\* otherwise, whatever it was before.
C4_ThrustNotLatched ==
    InCall =>
        bodies[Rocket].thrust = (IF keys.up THEN ThrustEngaged ELSE FZero)

\* A tick without the thrust flag that follows a tick with it: the rocket only
\* ever moves by its own thrust.
C4_Witness ==
    /\ pc = "a0"
    /\ ticks >= 1
    /\ ~keys.up
    /\ ~IsZero(bodies[Rocket].velocity)
    /\ bodies[Rocket].thrust = FZero

\* C5: with the kill input set, after the control pass and before integrate
\* the rocket's velocity is the 2D zero vector, readable by get_state, and the
\* following integrate call moves the position by 0.5 * a0 * dt^2 and leaves
\* the velocity 0.5 * (a0 + a1) * dt.
C5_KillVelocityIsZeroVector ==
    /\ (pc = "a0" /\ keys.down) =>
          /\ bodies[Rocket].velocity = Vec2(FZero, FZero)
          /\ get_state(bodies).error = "none"
    /\ (pc = "draw" /\ keys.down) =>
          /\ bodies[Rocket].position =
               NpAdd(pre[Rocket].position,
                     NpMul(NpMul(Scalar(Half), accelerations[Rocket]), Scalar(FMul(dt, dt))))
          /\ bodies[Rocket].velocity =
               NpMul(NpMul(Scalar(Half),
                           NpAdd(accelerations[Rocket], new_accelerations[Rocket])),
                     Scalar(dt))

\* C6: a state vector whose length is not a multiple of 4 ends the
\* construction in an invalid-configuration error and yields no System.
C6_FailFastOnBadLength ==
    (pc # "new" /\ Len(args.state) % 4 # 0) =>
        /\ raised = "InvalidConfiguration"
        /\ bodies = << >>

ControlStep == pc = "idle" /\ pc' = "idle" /\ controls' = controls + 1

\* C7: a control pass changes only angle, thrust and velocity of a
\* controllable body; it never changes a position or a position_history, and
\* it changes no field of a body that is not controllable.
C7_ControlFrame ==
    [][ ControlStep =>
          /\ Len(bodies') = Len(bodies)
          /\ \A i \in Indices(bodies) :
                /\ bodies'[i].position = bodies[i].position
                /\ bodies'[i].position_history = bodies[i].position_history
                /\ bodies'[i].mass = bodies[i].mass
                /\ bodies'[i].is_rocket = bodies[i].is_rocket
                /\ ~bodies[i].is_rocket => bodies'[i] = bodies[i] ]_vars

C7_Witness ==
    /\ pc = "idle"
    /\ controls = 1
    /\ ticks = 0
    /\ Len(bodies) = 2
    /\ bodies[1].is_rocket
    /\ bodies[1].thrust = ThrustEngaged
    /\ bodies[1].angle = AngleStep
    /\ ~IsArray(bodies[1].velocity)
    /\ bodies[1].position = built[1].position
    /\ bodies[2] = built[2]

\* The thrust vector of a heading and a thrust magnitude.
OwnThrust(thrust, angle) ==
    Vec2(FMul(FNeg(thrust), SinDeg(angle)), FMul(thrust, CosDeg(angle)))

\* C8: a controllable body's acceleration is its own thrust vector whatever
\* the other bodies are; with thrust 0 and velocity zero one integrate call
\* leaves its position unchanged and its velocity zero.
C8_RocketFeelsNoGravity ==
    \A i \in Indices(bodies) :
        bodies[i].is_rocket =>
            /\ pc \in {"pos", "a1", "vel"} =>
                 accelerations[i] = OwnThrust(pre[i].thrust, pre[i].angle)
            /\ pc = "vel" =>
                 new_accelerations[i] = OwnThrust(pre[i].thrust, pre[i].angle)
            /\ (Returned /\ pre[i].thrust = FZero /\ IsZero(pre[i].velocity)) =>
                 /\ bodies[i].position = pre[i].position
                 /\ IsZero(bodies[i].velocity)

C8_Witness ==
    /\ pc = "idle"
    /\ ticks = 1
    /\ Len(bodies) = 2
    /\ bodies[1].is_rocket
    /\ ~bodies[2].is_rocket
    /\ pre[1].thrust = FZero
    /\ IsZero(pre[1].velocity)
    /\ bodies[2].position # pre[2].position
    /\ bodies[1].position = pre[1].position

\* The scenario of C9: the rocket of generate() at rest at [0, 1.2] with its
\* thrust disengaged, one unit-mass passive body at rest at the origin, and
\* one integrate call made.
C9_Scenario ==
    /\ built = << Body(Lit(1, -4), Vec2(Lit(0, 0), Lit(12, -1)), Vec2(Lit(0, 0), Lit(0, 0)), TRUE),
                  Body(Lit(1, 0), Vec2(Lit(0, 0), Lit(0, 0)), Vec2(Lit(0, 0), Lit(0, 0)), FALSE) >>
    /\ pc = "idle"
    /\ ticks = 1
    /\ pre[1].thrust = FZero
    /\ pre[2] = built[2]

\* C9 as stated: the passive body feels nothing from the controllable body,
\* so after one integrate call it is still at [0, 0] with velocity zero.
C9_PassiveStaysPut ==
    C9_Scenario =>
        /\ bodies[2].position = Vec2(FZero, FZero)
        /\ IsZero(bodies[2].velocity)

\* C9 amended: the passive body is pulled by the controllable body's small
\* mass, a0 = G * 0.0001 * [0, 1.2] / max(1.2^3, 0.18^3); after one integrate
\* call its position is [0, 0.5 * a0.y * dt^2] and its velocity
\* [0, 0.5 * (a0.y + a1.y) * dt], both with y > 0; only x stays 0.
C9_PassivePulledByRocket ==
    C9_Scenario =>
        LET a0 == NpDiv(NpMul(Scalar(FMul(DefaultG, Lit(1, -4))), Vec2(FZero, Lit(12, -1))),
                        Scalar(FMax(Cube(Lit(12, -1)), Cube(Lit(18, -2)))))
        IN  /\ accelerations[2] = a0
            /\ a0.x.m = 0 /\ a0.y.m > 0
            /\ new_accelerations[2].x.m = 0 /\ new_accelerations[2].y.m > 0
            /\ bodies[2].position =
                 Vec2(FZero, FMul(FMul(Half, a0.y), FMul(dt, dt)))
            /\ bodies[2].position.y.m > 0
            /\ bodies[2].velocity =
                 Vec2(FZero, FMul(FMul(Half, FAdd(a0.y, new_accelerations[2].y)), dt))
            /\ bodies[2].velocity.y.m > 0

C9_Witness ==
    /\ C9_Scenario
    /\ dt = Dt
    /\ bodies[1].position = built[1].position
    /\ bodies[2].position.y.m > 0

Bool(b) == IF b THEN 1 ELSE 0

\* C10: integrate changes only position, velocity and position_history; mass,
\* the is_rocket tag and the number and order of bodies stay as constructed;
\* angle and thrust change only in the control pass, the angle by +5 per
\* asserted left flag and -5 per asserted right flag.
C10_IntegratorFrame ==
    /\ [](/\ Len(bodies) = Len(built)
          /\ \A i \in Indices(bodies) :
                /\ bodies[i].mass = built[i].mass
                /\ bodies[i].is_rocket = built[i].is_rocket)
    /\ [][ /\ InCall =>
                \A i \in Indices(bodies) :
                    /\ bodies'[i].angle = bodies[i].angle
                    /\ bodies'[i].thrust = bodies[i].thrust
           /\ (pc = "loop" /\ pc' = "a0") =>
                /\ bodies'[Rocket].angle =
                     bodies[Rocket].angle + AngleStep * (Bool(keys'.left) - Bool(keys'.right))
                /\ \A i \in Indices(bodies) : i # Rocket => bodies'[i] = bodies[i]
           /\ ~InCall /\ ~(pc = "loop" /\ pc' = "a0") => bodies' = bodies ]_vars

C10_Witness ==
    /\ pc = "draw"
    /\ ticks = 2
    /\ bodies[Rocket].angle = 2 * AngleStep
    /\ bodies[Rocket].thrust = ThrustEngaged
    /\ bodies[Rocket].position # built[Rocket].position
    /\ bodies[Rocket].mass = built[Rocket].mass

====
